---- MODULE Spec2Model ----
(***************************************************************************)
(* Model of lifesospy_mqtt.translator.Translator: the bridge between the   *)
(* LifeSOS panel driver (BaseUnit) and the MQTT client.                    *)
(*                                                                         *)
(* Modelling conventions                                                   *)
(*  - A topic 'a/b/c' is the sequence <<"a","b","c">> of its segments; the *)
(*    configured topic prefixes are single segments.                       *)
(*  - Every payload is the text handed to the MQTT client (str(value)).    *)
(*  - published and calls hold what the LAST step issued: the _publish     *)
(*    calls and the calls on the collaborators (panel driver, MQTT client, *)
(*    timer handles), in the order the code issues them.  retained is the  *)
(*    last retained payload issued per topic.                              *)
(*  - Everything between two awaits of a coroutine, and every callback, is *)
(*    one atomic step of the asyncio event loop.                           *)
(***************************************************************************)
EXTENDS Integers, Sequences, FiniteSets, TLC

(***************************************************************************)
(* Bounds of the model                                                     *)
(***************************************************************************)
MaxMessages == 2   \* inbound messages delivered to the dispatch loop
MaxEvents == 3     \* callbacks made by the panel driver
MaxTicks == 1      \* one-second clock steps (jumps to a deadline are free)

(***************************************************************************)
(* Program constants                                                       *)
(***************************************************************************)
AUTO_RESET_INTERVAL == 30

TOPIC_CLEAR_STATUS == "clear_status"
TOPIC_DATETIME == "datetime"
TOPIC_SET == "set"
PROP_OPERATION_MODE == "operation_mode"
PROP_IS_CLOSED == "is_closed"
PROP_STATE == "state"
TOPIC_HASTATE == "ha_state"

(***************************************************************************)
(* Configuration (self._config): one fixed configuration of the bridge.    *)
(*   device 1: a remote control, a type Home Assistant has no platform     *)
(*             for; topic, auto reset interval 5                           *)
(*   device 2: a door magnet; topic, no auto reset interval (the default   *)
(*             applies)                                                    *)
(*   device 3: a PIR sensor enrolled on the panel, no entry in the         *)
(*             configuration                                               *)
(*   device 4: a PIR sensor; topic, auto reset interval 0, no discovery    *)
(*             name; enrolled in EnrolledSpec only                         *)
(*   device 5: a PIR sensor with an entry in the configuration that gives  *)
(*             no topic and no discovery name; enrolled in EnrolledSpec    *)
(*             only                                                        *)
(*   switch SW01, SW02: topic; switch SW03: configured without a topic     *)
(***************************************************************************)
DeviceIds == {1, 2, 3}

ZeroIntervalDevice == 4

NoTopicDevice == 5

EnrolledIds == DeviceIds \cup {ZeroIntervalDevice, NoTopicDevice}

BaseunitTopic == "B"

ConfigDevices ==
    [d \in {1, 2, ZeroIntervalDevice, NoTopicDevice} |->
        IF d = 1
        THEN [topic |-> "D1", ha_name |-> "Hall PIR",
              has_interval |-> TRUE, auto_reset_interval |-> 5]
        ELSE IF d = 2
        THEN [topic |-> "D2", ha_name |-> "Front door",
              has_interval |-> FALSE, auto_reset_interval |-> 0]
        ELSE IF d = ZeroIntervalDevice
        THEN [topic |-> "D4", ha_name |-> "",
              has_interval |-> TRUE, auto_reset_interval |-> 0]
        ELSE [topic |-> "", ha_name |-> "",
              has_interval |-> FALSE, auto_reset_interval |-> 0]]

ConfigSwitches ==
    [s \in {"SW01", "SW02", "SW03"} |->
        IF s = "SW01" THEN [topic |-> "S1", ha_name |-> "Siren"]
        ELSE IF s = "SW02" THEN [topic |-> "S2", ha_name |-> ""]
        ELSE [topic |-> "", ha_name |-> ""]]

\* device.type, an attribute of the panel driver's Device object
DeviceTypeOf(d) ==
    IF d = 1 THEN "RemoteControl" ELSE IF d = 2 THEN "DoorMagnet" ELSE "PIRSensor"

\* isinstance(device, SpecialDevice)
IsSpecialDevice(d) == FALSE

\* device_config and device_config.topic
HasTopic(d) == d \in DOMAIN ConfigDevices /\ ConfigDevices[d].topic # ""

(***************************************************************************)
(* Values                                                                  *)
(***************************************************************************)
Pub(topic, payload, retain) ==
    [topic |-> topic, payload |-> payload, retain |-> retain]

Call(op, a, n, b) == [op |-> op, a |-> a, n |-> n, b |-> b]

\* a record handed to _LOGGER: the format string, its arguments as text,
\* and the exception logged with it (exc_info=True)
Log(text, args, exc) == [text |-> text, args |-> args, exc_info |-> exc]
NoLog == Log("", <<>>, "")

\* dict helpers
\* mutant: the value is not stored
PutNothing(f, k, v) == f

Put(f, k, v) == [x \in (DOMAIN f) \cup {k} |-> IF x = k THEN v ELSE f[x]]
\* mutant: the entry is left in the dict
PopKeeps(f, k) == f

Pop(f, k) == [x \in (DOMAIN f) \ {k} |-> f[x]]

VARIABLES
    pc,                   \* position of the caller: created, connecting,
                          \* subscribing, started, top, waiting, exited,
                          \* stopping, stopped
    shutdown,             \* self._shutdown
    driverRunning,        \* the panel driver is between start() and stop()
    ha_discovery_prefix,  \* self._config.translator.ha_discovery_prefix
    auto_reset_handles,   \* self._auto_reset_handles: device id -> handle
    timers,               \* every handle call_later returned: handle h is
                          \* timers[h] = [dev, when, st]
    now,                  \* the event loop's clock
    attached,             \* devices whose on_event/on_properties_changed
                          \* are bound to the translator
    deleted,              \* devices deleted and not added again since
    published,            \* _publish calls issued by the last step
    retained,             \* topic -> last payload issued with retain
    calls,                \* collaborator calls issued by the last step
    log,                  \* what the last step logged
    raised,               \* exception that escaped the last callback
    nMsgs, nEvents, nTicks,   \* counters for the bounds
    handledAfterShutdown, \* messages dispatched since the flag was set
    ready,                \* the _async_publish tasks create_task has queued
                          \* and the loop has not started yet, oldest first
    handed                \* the publishes handed to self._mqtt.publish, in
                          \* the order they were handed over

vars == <<pc, shutdown, driverRunning, ha_discovery_prefix,
          auto_reset_handles, timers, now, attached, deleted, published,
          retained, calls, log, raised, nMsgs, nEvents, nTicks,
          handledAfterShutdown, ready, handed>>

(***************************************************************************)
(* _publish: the publishes of a step are issued in order; a retained one   *)
(* replaces the topic's retained payload.                                  *)
(***************************************************************************)
LastRetained(pubs, t) ==
    LET idx == {i \in 1..Len(pubs) : pubs[i].topic = t /\ pubs[i].retain}
    IN  pubs[CHOOSE i \in idx : \A j \in idx : j <= i].payload

ApplyRetained(ret, pubs) ==
    LET new == {pubs[i].topic : i \in {j \in 1..Len(pubs) : pubs[j].retain}}
    IN  [t \in (DOMAIN ret) \cup new |->
            IF t \in new THEN LastRetained(pubs, t) ELSE ret[t]]

\* self._loop.create_task(coro), once for each _publish call of a step: the
\* tasks join the loop's queue behind the ones already there
CreateTasks(queue, pubs) == queue \o pubs

Publish(pubs) ==
    /\ published' = pubs
    /\ retained' = ApplyRetained(retained, pubs)

\* what the _publish calls of a step do to the loop's queue
TasksCreated ==
    /\ ready' = CreateTasks(ready, published')
    /\ UNCHANGED handed

\* the same step where the tasks are not followed
TasksUnfollowed == UNCHANGED <<ready, handed>>

\* a step that calls _publish not at all
NoPublish ==
    /\ published' = <<>>
    /\ UNCHANGED <<ready, handed>>

(***************************************************************************)
(* Inbound messages.  A payload is the text its bytes encode; InvalidUtf8  *)
(* stands for a payload whose bytes are not valid UTF-8.                   *)
(***************************************************************************)
InvalidUtf8 == "<bytes that are not UTF-8>"

DateTimeText == "2019-07-01 12:30:00"

Payloads ==
    {"", "on", "off", "Disarm", "Away", "maybe", DateTimeText, InvalidUtf8}

\* what a handler did: the collaborator calls it issued, what it logged,
\* and the exception it raised ("" when it returned normally)
Res(cs, lg, ex) == [calls |-> cs, log |-> lg, raised |-> ex]

\* message.data.decode()
DecodeRaises(data) == data = InvalidUtf8

\* '%s' % name, where an empty payload gave name = None
StrName(name) == IF name = "" THEN "None" ELSE name

\* OperationMode.parse_name(name): the member of that name, or None ("")
OperationModeParseName(name) ==
    IF name \in {"Disarm", "Home", "Away", "Monitor"} THEN name ELSE ""

\* OnOff.parse_name(name): the member of that name, or None ("")
OnOffParseName(name) ==
    IF name = "on" THEN "On" ELSE IF name = "off" THEN "Off" ELSE ""

\* OnOff.<member>.value
OnOffValue(member) == IF member = "On" THEN 1 ELSE 0

\* str(OnOff.parse_value(state))
OnOffParseValue(state) == IF state THEN "on" ELSE "off"

\* dateutil.parser.parse(value): the datetime, or "" when it raises
DateutilParse(value) ==
    IF value = DateTimeText THEN "datetime(2019, 7, 1, 12, 30, 0)" ELSE ""

\* self._subscribetopics_lookup, as built by __init__
SubscribeTopics ==
    {[topic |-> <<BaseunitTopic, TOPIC_CLEAR_STATUS>>,
      on_message |-> "_on_message_clear_status", args |-> ""],
     [topic |-> <<BaseunitTopic, TOPIC_DATETIME, TOPIC_SET>>,
      on_message |-> "_on_message_set_datetime", args |-> ""],
     [topic |-> <<BaseunitTopic, PROP_OPERATION_MODE, TOPIC_SET>>,
      on_message |-> "_on_message_baseunit", args |-> PROP_OPERATION_MODE]}
    \cup
    {[topic |-> <<ConfigSwitches[s].topic, TOPIC_SET>>,
      on_message |-> "_on_message_switch", args |-> s] :
        s \in {x \in DOMAIN ConfigSwitches : ConfigSwitches[x].topic # ""}}

SubscribeTopicsLookup ==
    [t \in {st.topic : st \in SubscribeTopics} |->
        CHOOSE st \in SubscribeTopics : st.topic = t]

\* topics a delivered message can carry: the subscribed ones and one that
\* matches no subscription
UnmatchedTopic == <<"S3", TOPIC_SET>>

Messages ==
    [topic : (DOMAIN SubscribeTopicsLookup) \cup {UnmatchedTopic},
     data : Payloads]

\* mutant: the warning is not followed by a return
OnMessageBaseunitNoReturn(subscribetopic, msg) ==
    IF msg.data # "" /\ DecodeRaises(msg.data)
    THEN Res(<<>>, NoLog, "UnicodeDecodeError")
    ELSE Res(<<Call("baseunit.async_set_operation_mode",
                    OperationModeParseName(msg.data), 0, FALSE)>>,
             IF OperationModeParseName(msg.data) = ""
             THEN Log("Cannot set operation_mode to '%s'",
                      <<StrName(msg.data)>>, "")
             ELSE NoLog, "")

OnMessageBaseunit(subscribetopic, msg) ==
    IF subscribetopic.args = PROP_OPERATION_MODE
    THEN IF msg.data # "" /\ DecodeRaises(msg.data)
         THEN Res(<<>>, NoLog, "UnicodeDecodeError")
         ELSE LET name == msg.data
                  operation_mode == OperationModeParseName(name)
              IN  IF operation_mode = ""
                  THEN Res(<<>>, Log("Cannot set operation_mode to '%s'",
                                     <<StrName(name)>>, ""), "")
                  ELSE Res(<<Call("baseunit.async_set_operation_mode",
                                  operation_mode, 0, FALSE)>>, NoLog, "")
    ELSE Res(<<>>, NoLog, "NotImplementedError")

OnMessageClearStatus(subscribetopic, msg) ==
    Res(<<Call("baseunit.async_clear_status", "", 0, FALSE)>>, NoLog, "")

\* mutant: text that does not parse is treated like no text
OnMessageSetDatetimeLenient(subscribetopic, msg) ==
    IF msg.data = "" \/ DecodeRaises(msg.data) \/ DateutilParse(msg.data) = ""
    THEN Res(<<Call("baseunit.async_set_datetime", "None", 0, FALSE)>>,
             NoLog, "")
    ELSE Res(<<Call("baseunit.async_set_datetime",
                    DateutilParse(msg.data), 0, FALSE)>>, NoLog, "")

OnMessageSetDatetime(subscribetopic, msg) ==
    IF msg.data = ""
    THEN Res(<<Call("baseunit.async_set_datetime", "None", 0, FALSE)>>, NoLog, "")
    ELSE IF DecodeRaises(msg.data)
    THEN Res(<<>>, NoLog, "UnicodeDecodeError")
    ELSE IF DateutilParse(msg.data) = ""
    THEN Res(<<>>, NoLog, "ValueError")
    ELSE Res(<<Call("baseunit.async_set_datetime",
                    DateutilParse(msg.data), 0, FALSE)>>, NoLog, "")

\* mutant: the state is taken from whether a member was found, not from
\* the member's value
OnMessageSwitchAlwaysOn(subscribetopic, msg) ==
    IF msg.data # "" /\ DecodeRaises(msg.data)
    THEN Res(<<>>, NoLog, "UnicodeDecodeError")
    ELSE IF OnOffParseName(msg.data) = ""
    THEN Res(<<>>, Log("Cannot set switch %s to '%s'",
                       <<subscribetopic.args, StrName(msg.data)>>, ""), "")
    ELSE Res(<<Call("baseunit.async_set_switch_state",
                    subscribetopic.args, 0, TRUE)>>, NoLog, "")

OnMessageSwitch(subscribetopic, msg) ==
    LET switch_number == subscribetopic.args
    IN  IF msg.data # "" /\ DecodeRaises(msg.data)
        THEN Res(<<>>, NoLog, "UnicodeDecodeError")
        ELSE LET name == msg.data
                 state == OnOffParseName(name)
             IN  IF state = ""
                 THEN Res(<<>>, Log("Cannot set switch %s to '%s'",
                                    <<switch_number, StrName(name)>>, ""), "")
                 ELSE Res(<<Call("baseunit.async_set_switch_state",
                                 switch_number, 0, OnOffValue(state) # 0)>>,
                          NoLog, "")

\* subscribetopic.on_message(subscribetopic, msg)
OnMessage(subscribetopic, msg) ==
    IF subscribetopic.on_message = "_on_message_clear_status"
    THEN OnMessageClearStatus(subscribetopic, msg)
    ELSE IF subscribetopic.on_message = "_on_message_set_datetime"
    THEN OnMessageSetDatetime(subscribetopic, msg)
    ELSE IF subscribetopic.on_message = "_on_message_baseunit"
    THEN OnMessageBaseunit(subscribetopic, msg)
    ELSE OnMessageSwitch(subscribetopic, msg)

\* mutant: a topic that is not in the lookup gets a default handler
DispatchUnmatchedDefaults(msg) ==
    IF msg.topic \notin DOMAIN SubscribeTopicsLookup
    THEN OnMessageClearStatus(<<>>, msg)
    ELSE OnMessage(SubscribeTopicsLookup[msg.topic], msg)

\* the try block of async_loop around the lookup and the handler: the
\* result of dispatching one message, exception included
Dispatch(msg) ==
    IF msg.topic \notin DOMAIN SubscribeTopicsLookup
    THEN Res(<<>>, NoLog, "KeyError")
    ELSE OnMessage(SubscribeTopicsLookup[msg.topic], msg)


(***************************************************************************)
(* Outbound: device properties and discovery documents                     *)
(***************************************************************************)
\* str(OpenClosed.parse_value(value))
OpenClosedParseValue(value) == IF value = "True" THEN "closed" ELSE "open"

ScalarProps ==
    {"device_id", "zone", "type", "rssi_db", "rssi_bars", "high_limit",
     "low_limit", "control_limit_fields_exist", "control_high_limit",
     "control_low_limit"}

\* the bitflag attributes and, for each, iter(<its flag enum>) as
\* <<item.name, item.value>>; the enums are the panel driver's, and three
\* one-bit flags stand for each
FlagProps ==
    {"characteristics", "enable_status", "switches", "special_status"}

FlagItems(name) ==
    IF name = "characteristics"
    THEN <<<<"Repeater", 1>>, <<"BaseUnit", 2>>, <<"TwoWay", 4>>>>
    ELSE IF name = "enable_status"
    THEN <<<<"Bypass", 1>>, <<"Delay", 2>>, <<"Hour24", 4>>>>
    ELSE IF name = "switches"
    THEN <<<<"SW01", 1>>, <<"SW02", 2>>, <<"SW03", 4>>>>
    ELSE <<<<"ControlAlarm", 1>>, <<"HighLowOperation", 2>>,
           <<"HighTriggered", 4>>>>

\* mutant: the flag is reported set whenever the value is not zero
FlagSetNonzero(value, bit) == IF value # 0 THEN "True" ELSE "False"

\* str(bool(value & item.value)) for a one-bit item.value
FlagSet(value, bit) == IF (value \div bit) % 2 = 1 THEN "True" ELSE "False"

\* mutant: the closed/open attribute is mapped without looking at the type
PublishDevicePropertyAnyType(topic_parent, d, name, value) ==
    IF (~IsSpecialDevice(d)) /\ name = PROP_IS_CLOSED
    THEN <<Pub(<<topic_parent>>, OpenClosedParseValue(value), TRUE)>>
    ELSE IF name \in ScalarProps
    THEN <<Pub(<<topic_parent, name>>, value, TRUE)>>
    ELSE <<>>

\* the publishes _publish_device_property issues for one attribute
PublishDeviceProperty(topic_parent, d, name, value) ==
    IF (~IsSpecialDevice(d)) /\ name = PROP_IS_CLOSED
    THEN IF DeviceTypeOf(d) = "DoorMagnet"
         THEN <<Pub(<<topic_parent>>, OpenClosedParseValue(value), TRUE)>>
         ELSE <<Pub(<<topic_parent>>, OnOffParseValue(FALSE), TRUE)>>
    ELSE IF IsSpecialDevice(d) /\ name = "current_reading"
    THEN <<Pub(<<topic_parent>>, value, TRUE)>>
    ELSE IF name = "category"
    THEN <<Pub(<<topic_parent, name, "code">>, value.code, TRUE),
           Pub(<<topic_parent, name, "description">>, value.description, TRUE)>>
    ELSE IF name \in FlagProps
    THEN [i \in 1..Len(FlagItems(name)) |->
             Pub(<<topic_parent, name, FlagItems(name)[i][1]>>,
                 FlagSet(value, FlagItems(name)[i][2]), TRUE)]
    ELSE IF name \in ScalarProps
    THEN <<Pub(<<topic_parent, name>>, value, TRUE)>>
    ELSE <<>>

\* the attributes of a device a callback can report, with str(value);
\* "message_attribute" is one the translator has no rule for
Changes ==
    {[name |-> PROP_IS_CLOSED, new_value |-> "True"],
     [name |-> PROP_IS_CLOSED, new_value |-> "False"],
     [name |-> "message_attribute", new_value |-> "x"]}

\* changes of the bitflag attributes: 5 sets the first and the third flag,
\* 10 the second flag and a bit no flag of the enum has
FlagChanges == [name : FlagProps, new_value : {5, 10}]

\* a change of the category record
CategoryChange ==
    [name |-> "category",
     new_value |-> [code |-> "c", description |-> "Controller"]]

\* device.as_dict() with getattr(device, name), is_closed as given
Snapshot(d, is_closed) ==
    <<[name |-> "device_id", new_value |-> ToString(d)],
      [name |-> "type", new_value |-> DeviceTypeOf(d)],
      [name |-> PROP_IS_CLOSED, new_value |-> is_closed]>>

RECURSIVE PublishChanges(_, _, _)
PublishChanges(topic_parent, d, changes) ==
    IF changes = <<>> THEN <<>>
    ELSE PublishDeviceProperty(topic_parent, d, Head(changes).name,
                               Head(changes).new_value)
         \o PublishChanges(topic_parent, d, Tail(changes))

\* ha_platform chosen by _publish_ha_device_config, "" for a device type
\* that cannot be represented
HaPlatform(type) ==
    IF type \in {"FloodDetector", "FloodDetector2", "MedicalButton",
                 "AnalogSensor", "AnalogSensor2", "SmokeDetector",
                 "PressureSensor", "PressureSensor2", "CODetector",
                 "CO2Sensor", "CO2Sensor2", "GasDetector", "DoorMagnet",
                 "VibrationSensor", "PIRSensor", "GlassBreakDetector"}
    THEN "binary_sensor"
    ELSE IF type \in {"HumidSensor", "HumidSensor2", "TempSensor",
                      "TempSensor2", "LightSensor", "LightDetector",
                      "ACCurrentMeter", "ACCurrentMeter2",
                      "ThreePhaseACMeter"}
    THEN "sensor"
    ELSE ""

\* message[HA_DEVICE_CLASS], "" when the document has none
HaDeviceClass(type) ==
    IF type \in {"FloodDetector", "FloodDetector2"} THEN "moisture"
    ELSE IF type = "MedicalButton" THEN "safety"
    ELSE IF type = "SmokeDetector" THEN "smoke"
    ELSE IF type \in {"PressureSensor", "PressureSensor2", "PIRSensor"}
    THEN "motion"
    ELSE IF type \in {"CODetector", "CO2Sensor", "CO2Sensor2", "GasDetector"}
    THEN "gas"
    ELSE IF type = "DoorMagnet" THEN "door"
    ELSE IF type = "VibrationSensor" THEN "vibration"
    ELSE IF type = "GlassBreakDetector" THEN "window"
    ELSE IF type \in {"HumidSensor", "HumidSensor2"} THEN "humidity"
    ELSE IF type \in {"TempSensor", "TempSensor2"} THEN "temperature"
    ELSE IF type \in {"LightSensor", "LightDetector"} THEN "illuminance"
    ELSE ""

\* '{}_{:06x}'.format(PROJECT_NAME, device.device_id)
DeviceUniqueId(d) ==
    IF d = 1 THEN "lifesospy_mqtt_000001"
    ELSE IF d = 2 THEN "lifesospy_mqtt_000002"
    ELSE "lifesospy_mqtt_000003"

\* the warning of _publish_ha_device_config for a device type that has no
\* branch, NoLog for the others
HaDeviceConfigLog(d) ==
    IF HaPlatform(DeviceTypeOf(d)) = ""
    THEN Log("Device type '%s' cannot be represented in Home Assistant and will be skipped.",
             <<DeviceTypeOf(d)>>, "")
    ELSE NoLog

\* mutant: the else branch warns but does not return
PublishHaDeviceConfigNoReturn(d, device_config) ==
    <<Pub(<<ha_discovery_prefix, HaPlatform(DeviceTypeOf(d)),
            DeviceUniqueId(d), "config">>,
          HaDeviceClass(DeviceTypeOf(d)), TRUE)>>

\* the discovery document is identified by the device class it declares
PublishHaDeviceConfig(d, device_config) ==
    IF HaPlatform(DeviceTypeOf(d)) = "" THEN <<>>
    ELSE <<Pub(<<ha_discovery_prefix, HaPlatform(DeviceTypeOf(d)),
                 DeviceUniqueId(d), "config">>,
               HaDeviceClass(DeviceTypeOf(d)), TRUE)>>

\* '{}_{}'.format(PROJECT_NAME, str(switch_number).lower())
SwitchUniqueId(s) ==
    IF s = "SW01" THEN "lifesospy_mqtt_sw01"
    ELSE IF s = "SW02" THEN "lifesospy_mqtt_sw02"
    ELSE "lifesospy_mqtt_sw03"

PublishHaSwitchConfig(s, switch_config) ==
    <<Pub(<<ha_discovery_prefix, "switch", SwitchUniqueId(s), "config">>,
          switch_config.ha_name, TRUE)>>

\* self._config.translator.switches.keys()
SwitchNumbers == <<"SW01", "SW02", "SW03">>

RECURSIVE PublishSwitchConfigs(_)
PublishSwitchConfigs(keys) ==
    IF keys = <<>> THEN <<>>
    ELSE (IF ConfigSwitches[Head(keys)].ha_name # ""
          THEN PublishHaSwitchConfig(Head(keys), ConfigSwitches[Head(keys)])
          ELSE <<>>)
         \o PublishSwitchConfigs(Tail(keys))

(***************************************************************************)
(* Timers: loop.call_later returns the next handle; a handle is scheduled  *)
(* until it is cancelled or its callback has run.                          *)
(***************************************************************************)
Handles == DOMAIN timers

Live(h) == timers[h].st = "scheduled"

LiveTimers(d) == {h \in Handles : timers[h].dev = d /\ Live(h)}

\* mutant: the old handle is dropped without being cancelled
CancelNone(tm, hs) == tm

\* mutant: a handle whose deadline has passed is taken to have run already
CancelOnlyPending(tm, hs) ==
    [h \in DOMAIN tm |->
        IF h \in hs /\ tm[h].st = "scheduled" /\ tm[h].when > now
        THEN [tm[h] EXCEPT !.st = "cancelled"] ELSE tm[h]]

\* handle.cancel() on every handle of hs
CancelAll(tm, hs) ==
    [h \in DOMAIN tm |->
        IF h \in hs /\ tm[h].st = "scheduled"
        THEN [tm[h] EXCEPT !.st = "cancelled"] ELSE tm[h]]

\* the cancel calls of async_stop, one per registry entry
RECURSIVE CancelCalls(_)
CancelCalls(hs) ==
    IF hs = {} THEN <<>>
    ELSE LET h == CHOOSE x \in hs : \A y \in hs : x <= y
         IN  <<Call("handle.cancel", "", h, FALSE)>> \o CancelCalls(hs \ {h})

\* device_config.auto_reset_interval or Translator.AUTO_RESET_INTERVAL
AutoResetDelay(device_config) ==
    IF device_config.has_interval /\ device_config.auto_reset_interval # 0
    THEN device_config.auto_reset_interval
    ELSE AUTO_RESET_INTERVAL

Quiet ==
    /\ NoPublish
    /\ calls' = <<>>
    /\ log' = NoLog
    /\ raised' = ""
    /\ UNCHANGED retained

(***************************************************************************)
(* Initial state: the translator as __init__ leaves it                     *)
(***************************************************************************)
Init ==
    /\ pc = "created"
    /\ shutdown = FALSE
    /\ driverRunning = FALSE
    /\ ha_discovery_prefix \in {"", "homeassistant"}
    /\ auto_reset_handles = <<>>
    /\ timers = <<>>
    /\ now = 0
    /\ attached = {}
    /\ deleted = {}
    /\ published = <<>>
    /\ retained = <<>>
    /\ calls = <<>>
    /\ log = NoLog
    /\ raised = ""
    /\ nMsgs = 0
    /\ nEvents = 0
    /\ nTicks = 0
    /\ handledAfterShutdown = 0
    /\ ready = <<>>
    /\ handed = <<>>

(***************************************************************************)
(* async_start                                                             *)
(***************************************************************************)
AsyncStart ==
    /\ pc = "created"
    /\ pc' = "connecting"
    /\ shutdown' = FALSE
    /\ driverRunning' = TRUE
    /\ calls' = <<Call("baseunit.start", "", 0, FALSE),
                  Call("mqtt.connect", "", 0, FALSE)>>
    /\ NoPublish /\ log' = NoLog /\ raised' = ""
    /\ UNCHANGED <<ha_discovery_prefix, auto_reset_handles, timers, now,
                   attached, deleted, retained, nMsgs, nEvents, nTicks,
                   handledAfterShutdown>>

AsyncStartConnected ==
    /\ pc = "connecting"
    /\ pc' = "subscribing"
    /\ calls' = <<Call("mqtt.subscribe", "", 0, FALSE)>>
    /\ NoPublish /\ log' = NoLog /\ raised' = ""
    /\ UNCHANGED <<shutdown, driverRunning, ha_discovery_prefix,
                   auto_reset_handles, timers, now, attached, deleted,
                   retained, nMsgs, nEvents, nTicks, handledAfterShutdown>>

\* mutant: the switch documents are published whatever the prefix is
AsyncStartSubscribedUnconditional ==
    /\ pc = "subscribing"
    /\ pc' = "started"
    /\ Publish(PublishSwitchConfigs(SwitchNumbers))
    /\ calls' = <<>> /\ log' = NoLog /\ raised' = ""
    /\ UNCHANGED <<shutdown, driverRunning, ha_discovery_prefix,
                   auto_reset_handles, timers, now, attached, deleted,
                   nMsgs, nEvents, nTicks, handledAfterShutdown>>

\* the rest of async_start, once the subscribe has returned
AsyncStartSubscribed ==
    /\ pc = "subscribing"
    /\ pc' = "started"
    /\ Publish(IF ha_discovery_prefix # ""
               THEN PublishSwitchConfigs(SwitchNumbers) ELSE <<>>)
    /\ calls' = <<>> /\ log' = NoLog /\ raised' = ""
    /\ UNCHANGED <<shutdown, driverRunning, ha_discovery_prefix,
                   auto_reset_handles, timers, now, attached, deleted,
                   nMsgs, nEvents, nTicks, handledAfterShutdown>>

(***************************************************************************)
(* async_loop                                                              *)
(***************************************************************************)
\* the caller enters async_loop, which traps SIGINT
AsyncLoopEnter ==
    /\ pc = "started"
    /\ pc' = "top"
    /\ Quiet
    /\ UNCHANGED <<shutdown, driverRunning, ha_discovery_prefix,
                   auto_reset_handles, timers, now, attached, deleted,
                   nMsgs, nEvents, nTicks, handledAfterShutdown>>

\* mutant: the loop waits for the next message without testing the flag
LoopCheckIgnoresFlag ==
    /\ pc = "top"
    /\ pc' = "waiting"
    /\ Quiet
    /\ UNCHANGED <<shutdown, driverRunning, ha_discovery_prefix,
                   auto_reset_handles, timers, now, attached, deleted,
                   nMsgs, nEvents, nTicks, handledAfterShutdown>>

\* while not self._shutdown: ... await self._mqtt.deliver_message(timeout=1)
LoopCheck ==
    /\ pc = "top"
    /\ pc' = IF shutdown THEN "exited" ELSE "waiting"
    /\ Quiet
    /\ UNCHANGED <<shutdown, driverRunning, ha_discovery_prefix,
                   auto_reset_handles, timers, now, attached, deleted,
                   nMsgs, nEvents, nTicks, handledAfterShutdown>>

\* except asyncio.TimeoutError: continue
LoopTimeout ==
    /\ pc = "waiting"
    /\ pc' = "top"
    /\ Quiet
    /\ UNCHANGED <<shutdown, driverRunning, ha_discovery_prefix,
                   auto_reset_handles, timers, now, attached, deleted,
                   nMsgs, nEvents, nTicks, handledAfterShutdown>>

\* mutant: an error of the wait is logged and ends the loop
LoopWaitErrorBreaks ==
    /\ pc = "waiting"
    /\ pc' = "exited"
    /\ log' = Log("Exception waiting for message to be delivered", <<>>,
                  "Exception")
    /\ NoPublish /\ calls' = <<>> /\ raised' = ""
    /\ UNCHANGED <<shutdown, driverRunning, ha_discovery_prefix,
                   auto_reset_handles, timers, now, attached, deleted,
                   retained, nMsgs, nEvents, nTicks, handledAfterShutdown>>

\* except Exception: log, continue
LoopWaitError ==
    /\ pc = "waiting"
    /\ pc' = "top"
    /\ log' = Log("Exception waiting for message to be delivered", <<>>,
                  "Exception")
    /\ NoPublish /\ calls' = <<>> /\ raised' = ""
    /\ UNCHANGED <<shutdown, driverRunning, ha_discovery_prefix,
                   auto_reset_handles, timers, now, attached, deleted,
                   retained, nMsgs, nEvents, nTicks, handledAfterShutdown>>

\* a message is delivered and dispatched; an exception of the lookup or of
\* the handler is logged and swallowed
LoopMessage(message) ==
    /\ pc = "waiting"
    /\ nMsgs < MaxMessages
    /\ nMsgs' = nMsgs + 1
    /\ pc' = "top"
    /\ LET res == Dispatch(message)
       IN  /\ calls' = res.calls
           /\ log' = IF res.raised # ""
                     THEN Log("Exception processing message from subscribed topic: %s",
                              message.topic, res.raised)
                     ELSE res.log
    /\ raised' = ""
    /\ NoPublish
    /\ handledAfterShutdown' =
           IF shutdown THEN handledAfterShutdown + 1 ELSE handledAfterShutdown
    /\ UNCHANGED <<shutdown, driverRunning, ha_discovery_prefix,
                   auto_reset_handles, timers, now, attached, deleted,
                   retained, nEvents, nTicks>>

\* signal_shutdown, installed while async_loop runs
SignalShutdown ==
    /\ pc \in {"top", "waiting"}
    /\ ~shutdown
    /\ shutdown' = TRUE
    /\ Quiet
    /\ UNCHANGED <<pc, driverRunning, ha_discovery_prefix,
                   auto_reset_handles, timers, now, attached, deleted,
                   nMsgs, nEvents, nTicks, handledAfterShutdown>>

(***************************************************************************)
(* async_stop                                                              *)
(***************************************************************************)
\* the caller runs async_stop once async_loop has returned
StopCalled == pc = "exited"

\* mutant: the registry is emptied without visiting its handles
RegistryHandlesSkipped(reg) == {}

\* the handles async_stop finds in a copy of the registry
RegistryHandles(reg) == {reg[d] : d \in DOMAIN reg}

\* mutant: the client is disconnected before the timers are cancelled
StopCallsDisconnectFirst(hs) ==
    <<Call("baseunit.stop", "", 0, FALSE)>>
    \o <<Call("mqtt.disconnect", "", 0, FALSE)>>
    \o CancelCalls(hs)

\* the collaborator calls of async_stop, in the order it makes them
StopCalls(hs) ==
    <<Call("baseunit.stop", "", 0, FALSE)>>
    \o CancelCalls(hs)
    \o <<Call("mqtt.disconnect", "", 0, FALSE)>>

AsyncStop ==
    /\ StopCalled
    /\ pc' = "stopping"
    /\ driverRunning' = FALSE
    /\ LET hs == RegistryHandles(auto_reset_handles)
       IN  /\ timers' = CancelAll(timers, hs)
           /\ calls' = StopCalls(hs)
    /\ auto_reset_handles' = <<>>
    /\ NoPublish /\ log' = NoLog /\ raised' = ""
    /\ UNCHANGED <<shutdown, ha_discovery_prefix, now, attached, deleted,
                   retained, nMsgs, nEvents, nTicks, handledAfterShutdown>>

\* await self._mqtt.disconnect() returns
AsyncStopDone ==
    /\ pc = "stopping"
    /\ pc' = "stopped"
    /\ Quiet
    /\ UNCHANGED <<shutdown, driverRunning, ha_discovery_prefix,
                   auto_reset_handles, timers, now, attached, deleted,
                   nMsgs, nEvents, nTicks, handledAfterShutdown>>

(***************************************************************************)
(* Callbacks of the panel driver.  The driver calls back only between      *)
(* baseunit.start() and baseunit.stop().                                   *)
(***************************************************************************)
DriverCallback ==
    /\ driverRunning
    /\ nEvents < MaxEvents
    /\ nEvents' = nEvents + 1

\* _baseunit_device_added
BaseunitDeviceAdded(d, is_closed) ==
    /\ DriverCallback
    /\ d \notin attached
    /\ attached' = attached \cup {d}
    /\ deleted' = deleted \ {d}
    /\ LET props == IF HasTopic(d)
                    THEN PublishChanges(ConfigDevices[d].topic, d,
                                        Snapshot(d, is_closed))
                    ELSE <<>>
       IN  IF ha_discovery_prefix = ""
           THEN Publish(props) /\ raised' = ""
           ELSE IF d \notin DOMAIN ConfigDevices
           THEN Publish(props) /\ raised' = "AttributeError"
           ELSE IF ConfigDevices[d].ha_name # ""
           THEN /\ Publish(props \o PublishHaDeviceConfig(d, ConfigDevices[d]))
                /\ raised' = ""
           ELSE Publish(props) /\ raised' = ""
    /\ log' = IF /\ ha_discovery_prefix # ""
                 /\ d \in DOMAIN ConfigDevices
                 /\ ConfigDevices[d].ha_name # ""
              THEN HaDeviceConfigLog(d) ELSE NoLog
    /\ calls' = <<>>
    /\ UNCHANGED <<pc, shutdown, driverRunning, ha_discovery_prefix,
                   auto_reset_handles, timers, now, nMsgs, nTicks,
                   handledAfterShutdown>>

\* device.on_event = None; device.on_properties_changed = None
Detach(att, d) == att \ {d}

\* _baseunit_device_deleted
BaseunitDeviceDeleted(d) ==
    /\ DriverCallback
    /\ d \in attached
    /\ attached' = Detach(attached, d)
    /\ deleted' = deleted \cup {d}
    /\ Quiet
    /\ UNCHANGED <<pc, shutdown, driverRunning, ha_discovery_prefix,
                   auto_reset_handles, timers, now, nMsgs, nTicks,
                   handledAfterShutdown>>

EventCodes == {"Trigger", "Open"}

\* mutant: a retrigger keeps the deadline of the handle it replaces
CallLaterKeepsDeadline(delay, d) ==
    [dev |-> d,
     when |-> IF d \in DOMAIN auto_reset_handles
              THEN timers[auto_reset_handles[d]].when ELSE now + delay,
     st |-> "scheduled"]

\* the handle loop.call_later(delay, self._auto_reset, device_id) returns
CallLater(delay, d) == [dev |-> d, when |-> now + delay, st |-> "scheduled"]

\* mutant: an event other than Trigger sets the state back
EventPublishesOffOtherwise(device_config, event_code) ==
    <<Pub(<<device_config.topic, "event_code">>, event_code, FALSE),
      Pub(<<device_config.topic>>, OnOffParseValue(event_code = "Trigger"),
          TRUE)>>

\* mutant: every event code is taken for a Trigger
EventPublishesAnyCode(device_config, event_code) ==
    <<Pub(<<device_config.topic, "event_code">>, event_code, FALSE),
      Pub(<<device_config.topic>>, OnOffParseValue(TRUE), TRUE)>>

\* the publishes of _device_on_event for a configured device
EventPublishes(device_config, event_code) ==
    <<Pub(<<device_config.topic, "event_code">>, event_code, FALSE)>>
    \o (IF event_code = "Trigger"
        THEN <<Pub(<<device_config.topic>>, OnOffParseValue(TRUE), TRUE)>>
        ELSE <<>>)

\* _device_on_event
DeviceOnEvent(d, event_code) ==
    /\ DriverCallback
    /\ d \in attached
    /\ IF HasTopic(d)
       THEN LET device_config == ConfigDevices[d]
            IN  IF event_code = "Trigger"
                THEN /\ Publish(EventPublishes(device_config, event_code))
                     /\ LET old == IF d \in DOMAIN auto_reset_handles
                                   THEN {auto_reset_handles[d]} ELSE {}
                            handle == Len(timers) + 1
                        IN  /\ timers' =
                                 Append(CancelAll(timers, old),
                                        CallLater(AutoResetDelay(device_config), d))
                            /\ calls' = CancelCalls(old)
                            /\ auto_reset_handles' =
                                 Put(auto_reset_handles, d, handle)
                ELSE /\ Publish(EventPublishes(device_config, event_code))
                     /\ calls' = <<>>
                     /\ UNCHANGED <<auto_reset_handles, timers>>
       ELSE /\ Publish(<<>>)
            /\ calls' = <<>>
            /\ UNCHANGED <<auto_reset_handles, timers>>
    /\ log' = NoLog /\ raised' = ""
    /\ UNCHANGED <<pc, shutdown, driverRunning, ha_discovery_prefix, now,
                   attached, deleted, nMsgs, nTicks, handledAfterShutdown>>

\* _device_on_properties_changed
DeviceOnPropertiesChanged(d, changes) ==
    /\ DriverCallback
    /\ d \in attached
    /\ Publish(IF HasTopic(d)
               THEN PublishChanges(ConfigDevices[d].topic, d, changes)
               ELSE <<>>)
    /\ calls' = <<>> /\ log' = NoLog /\ raised' = ""
    /\ UNCHANGED <<pc, shutdown, driverRunning, ha_discovery_prefix,
                   auto_reset_handles, timers, now, attached, deleted,
                   nMsgs, nTicks, handledAfterShutdown>>

(***************************************************************************)
(* Callbacks of the panel driver about the base unit itself                *)
(***************************************************************************)
\* _async_publish: None becomes the empty payload, anything else its str()
Payload(message) == IF message = "None" THEN "" ELSE message

\* json.dumps(contact_id.as_dict()): the text of the whole record
JsonDumps(contact_id) == ToString(contact_id)

\* the normalized event records the driver reports; event_code "" is an
\* event whose code contact_id.event_code does not give (None)
ContactIDs ==
    [event_qualifier : {"Event", "Restore", "Repeat"},
     event_category : {"Alarm", "Trouble"},
     event_code : {"", "Burglar"}]

\* mutant: the bare code is published with the retain flag
BaseunitEventPublishesRetained(contact_id) ==
    <<Pub(<<BaseunitTopic, "event">>, JsonDumps(contact_id), FALSE)>>
    \o (IF contact_id.event_code # ""
        THEN IF contact_id.event_qualifier = "Event"
             THEN <<Pub(<<BaseunitTopic, "event_code">>,
                        contact_id.event_code, TRUE)>>
             ELSE IF contact_id.event_qualifier = "Restore"
             THEN <<Pub(<<BaseunitTopic, "restore_code">>,
                        contact_id.event_code, TRUE)>>
             ELSE <<>>
        ELSE <<>>)
    \o (IF contact_id.event_qualifier = "Event"
           /\ contact_id.event_category = "Alarm"
        THEN <<Pub(<<BaseunitTopic, TOPIC_HASTATE>>, "triggered", TRUE)>>
        ELSE <<>>)

\* the publishes of _baseunit_event
BaseunitEventPublishes(contact_id) ==
    <<Pub(<<BaseunitTopic, "event">>, JsonDumps(contact_id), FALSE)>>
    \o (IF contact_id.event_code # ""
        THEN IF contact_id.event_qualifier = "Event"
             THEN <<Pub(<<BaseunitTopic, "event_code">>,
                        contact_id.event_code, FALSE)>>
             ELSE IF contact_id.event_qualifier = "Restore"
             THEN <<Pub(<<BaseunitTopic, "restore_code">>,
                        contact_id.event_code, FALSE)>>
             ELSE <<>>
        ELSE <<>>)
    \o (IF contact_id.event_qualifier = "Event"
           /\ contact_id.event_category = "Alarm"
        THEN <<Pub(<<BaseunitTopic, TOPIC_HASTATE>>, "triggered", TRUE)>>
        ELSE <<>>)

\* _baseunit_event
BaseunitEvent(contact_id) ==
    /\ DriverCallback
    /\ Publish(BaseunitEventPublishes(contact_id))
    /\ calls' = <<>> /\ log' = NoLog /\ raised' = ""
    /\ UNCHANGED <<pc, shutdown, driverRunning, ha_discovery_prefix,
                   auto_reset_handles, timers, now, attached, deleted,
                   nMsgs, nTicks, handledAfterShutdown>>

\* the values of BaseUnit.state: the members of BaseUnitState the
\* translator names, one it does not name, and None (state not known)
BaseUnitStates ==
    {"Disarm", "Home", "Away", "Monitor", "AwayExitDelay", "AwayEntryDelay",
     "HomeExitDelay", "None"}

BaseunitScalarProps ==
    {"is_connected", "rom_version", "exit_delay", "entry_delay",
     PROP_OPERATION_MODE}

\* mutant: AwayEntryDelay is missing from the states that give 'pending'
PublishBaseunitPropertyNoEntryDelay(name, value) ==
    IF name = PROP_STATE
    THEN <<Pub(<<BaseunitTopic>>, Payload(value), TRUE)>>
         \o (IF value \in {"Disarm", "Monitor"}
             THEN <<Pub(<<BaseunitTopic, TOPIC_HASTATE>>, "disarmed", TRUE)>>
             ELSE IF value = "Home"
             THEN <<Pub(<<BaseunitTopic, TOPIC_HASTATE>>, "armed_home", TRUE)>>
             ELSE IF value = "Away"
             THEN <<Pub(<<BaseunitTopic, TOPIC_HASTATE>>, "armed_away", TRUE)>>
             ELSE IF value = "AwayExitDelay"
             THEN <<Pub(<<BaseunitTopic, TOPIC_HASTATE>>, "pending", TRUE)>>
             ELSE <<>>)
    ELSE IF name \in BaseunitScalarProps
    THEN <<Pub(<<BaseunitTopic, name>>, Payload(value), TRUE)>>
    ELSE <<>>

\* the publishes of _publish_baseunit_property
PublishBaseunitProperty(name, value) ==
    LET topic_parent == BaseunitTopic
        topic == <<topic_parent, TOPIC_HASTATE>>
    IN  IF name = PROP_STATE
        THEN <<Pub(<<topic_parent>>, Payload(value), TRUE)>>
             \o (IF value \in {"Disarm", "Monitor"}
                 THEN <<Pub(topic, "disarmed", TRUE)>>
                 ELSE IF value = "Home"
                 THEN <<Pub(topic, "armed_home", TRUE)>>
                 ELSE IF value = "Away"
                 THEN <<Pub(topic, "armed_away", TRUE)>>
                 ELSE IF value \in {"AwayExitDelay", "AwayEntryDelay"}
                 THEN <<Pub(topic, "pending", TRUE)>>
                 ELSE <<>>)
        ELSE IF name \in BaseunitScalarProps
        THEN <<Pub(<<topic_parent, name>>, Payload(value), TRUE)>>
        ELSE <<>>

\* the property changes of the base unit a callback can report;
\* "password" is a property the translator has no rule for
BaseunitChanges ==
    [name : {PROP_STATE}, new_value : BaseUnitStates]
    \cup {[name |-> "is_connected", new_value |-> "True"],
          [name |-> "password", new_value |-> "x"]}

RECURSIVE PublishBaseunitChanges(_)
PublishBaseunitChanges(changes) ==
    IF changes = <<>> THEN <<>>
    ELSE PublishBaseunitProperty(Head(changes).name, Head(changes).new_value)
         \o PublishBaseunitChanges(Tail(changes))

\* _baseunit_properties_changed
BaseunitPropertiesChanged(changes) ==
    /\ DriverCallback
    /\ Publish(PublishBaseunitChanges(changes))
    /\ calls' = <<>> /\ log' = NoLog /\ raised' = ""
    /\ UNCHANGED <<pc, shutdown, driverRunning, ha_discovery_prefix,
                   auto_reset_handles, timers, now, attached, deleted,
                   nMsgs, nTicks, handledAfterShutdown>>

\* _baseunit_switch_state_changed
BaseunitSwitchStateChanged(switch_number, state) ==
    /\ DriverCallback
    /\ Publish(IF switch_number \in DOMAIN ConfigSwitches
                  /\ ConfigSwitches[switch_number].topic # ""
               THEN <<Pub(<<ConfigSwitches[switch_number].topic>>,
                          OnOffParseValue(state), TRUE)>>
               ELSE <<>>)
    /\ calls' = <<>> /\ log' = NoLog /\ raised' = ""
    /\ UNCHANGED <<pc, shutdown, driverRunning, ha_discovery_prefix,
                   auto_reset_handles, timers, now, attached, deleted,
                   nMsgs, nTicks, handledAfterShutdown>>

(***************************************************************************)
(* The event loop: its clock, and the timer callbacks it runs              *)
(***************************************************************************)
\* the event loop runs callbacks while the caller runs a coroutine on it
LoopRunning == pc \notin {"created", "stopped"}

\* mutant: the reset is published without the retain flag
AutoResetPublishesUnretained(device_id) ==
    IF HasTopic(device_id)
    THEN <<Pub(<<ConfigDevices[device_id].topic>>, OnOffParseValue(FALSE), FALSE)>>
    ELSE <<>>

\* the publish of _auto_reset
AutoResetPublishes(device_id) ==
    IF HasTopic(device_id)
    THEN <<Pub(<<ConfigDevices[device_id].topic>>, OnOffParseValue(FALSE), TRUE)>>
    ELSE <<>>

\* _auto_reset(device_id), run by the loop for a scheduled handle whose
\* deadline has passed
AutoReset(h) ==
    /\ LoopRunning
    /\ h \in Handles
    /\ Live(h)
    /\ timers[h].when <= now
    /\ timers' = [timers EXCEPT ![h].st = "fired"]
    /\ LET device_id == timers[h].dev
       IN  /\ Publish(AutoResetPublishes(device_id))
           /\ IF device_id \in DOMAIN auto_reset_handles
              THEN /\ auto_reset_handles' = Pop(auto_reset_handles, device_id)
                   /\ raised' = ""
              ELSE /\ UNCHANGED auto_reset_handles
                   /\ raised' = "KeyError"
    /\ calls' = <<>> /\ log' = NoLog
    /\ UNCHANGED <<pc, shutdown, driverRunning, ha_discovery_prefix, now,
                   attached, deleted, nMsgs, nEvents, nTicks,
                   handledAfterShutdown>>

\* one second passes
Tick ==
    /\ LoopRunning
    /\ nTicks < MaxTicks
    /\ nTicks' = nTicks + 1
    /\ now' = now + 1
    /\ Quiet
    /\ UNCHANGED <<pc, shutdown, driverRunning, ha_discovery_prefix,
                   auto_reset_handles, timers, attached, deleted, nMsgs,
                   nEvents, handledAfterShutdown>>

\* time passes up to the deadline of a scheduled handle
AdvanceTo(h) ==
    /\ LoopRunning
    /\ h \in Handles
    /\ Live(h)
    /\ timers[h].when > now
    /\ now' = timers[h].when
    /\ Quiet
    /\ UNCHANGED <<pc, shutdown, driverRunning, ha_discovery_prefix,
                   auto_reset_handles, timers, attached, deleted, nMsgs,
                   nEvents, nTicks, handledAfterShutdown>>

\* mutant: the loop starts the task queued last
NextTaskNewest(queue) == Len(queue)

\* the task the loop starts next: tasks start in the order create_task
\* queued them
NextTask(queue) == 1

\* _async_publish, from the start of its task to its await of
\* self._mqtt.publish(topic, message, retain=retain)
AsyncPublish ==
    /\ LoopRunning
    /\ ready # <<>>
    /\ LET i == NextTask(ready)
       IN  /\ handed' = Append(handed, ready[i])
           /\ ready' = SubSeq(ready, 1, i - 1)
                          \o SubSeq(ready, i + 1, Len(ready))
    /\ published' = <<>>
    /\ calls' = <<>> /\ log' = NoLog /\ raised' = ""
    /\ UNCHANGED <<pc, shutdown, driverRunning, ha_discovery_prefix,
                   auto_reset_handles, timers, now, attached, deleted,
                   retained, nMsgs, nEvents, nTicks, handledAfterShutdown>>

(***************************************************************************)
(* Specification                                                           *)
(***************************************************************************)
\* the steps of the caller's coroutines that call _publish not at all
Caller ==
    \/ AsyncStart
    \/ AsyncStartConnected
    \/ AsyncLoopEnter
    \/ LoopCheck
    \/ LoopTimeout
    \/ LoopWaitError
    \/ SignalShutdown
    \/ AsyncStop
    \/ AsyncStopDone

\* the coroutines of the caller: start, dispatch loop, stop
Lifecycle ==
    \/ Caller
    \/ AsyncStartSubscribed /\ TasksUnfollowed

\* the delivery of an inbound message
Inbound == \E m \in Messages : LoopMessage(m)

\* devices enrolled on and deleted from the panel
Registration ==
    \/ \E d \in DeviceIds, is_closed \in {"True", "False"} :
           BaseunitDeviceAdded(d, is_closed) /\ TasksUnfollowed
    \/ \E d \in DeviceIds : BaseunitDeviceDeleted(d)

\* the panel driver's callbacks, the clock and the timer callbacks
Panel ==
    \/ Registration
    \/ \E d \in DeviceIds, event_code \in EventCodes :
           DeviceOnEvent(d, event_code) /\ TasksUnfollowed
    \/ \E d \in DeviceIds, change \in Changes :
           DeviceOnPropertiesChanged(d, <<change>>) /\ TasksUnfollowed
    \/ \E h \in Handles : AutoReset(h) /\ TasksUnfollowed
    \/ Tick
    \/ \E h \in Handles : AdvanceTo(h)

\* the callbacks that arm and run the auto-reset timers
Timed ==
    \/ \E d \in DeviceIds, is_closed \in {"True", "False"} :
           BaseunitDeviceAdded(d, is_closed) /\ TasksUnfollowed
    \/ \E d \in DeviceIds, event_code \in EventCodes :
           DeviceOnEvent(d, event_code) /\ TasksUnfollowed
    \/ \E h \in Handles : AutoReset(h) /\ TasksUnfollowed
    \/ \E h \in Handles : AdvanceTo(h)

\* the same callbacks, the devices configured with interval 0 and without
\* a topic enrolled too
TimedEnrolled ==
    \/ \E d \in EnrolledIds, is_closed \in {"True", "False"} :
           BaseunitDeviceAdded(d, is_closed) /\ TasksUnfollowed
    \/ \E d \in EnrolledIds, event_code \in EventCodes :
           DeviceOnEvent(d, event_code) /\ TasksUnfollowed
    \/ \E h \in Handles : AutoReset(h) /\ TasksUnfollowed
    \/ \E h \in Handles : AdvanceTo(h)

\* the callbacks of one device and of the base unit's state with the
\* tasks their _publish calls create, and the loop starting those tasks
Followed ==
    \/ AsyncStartSubscribed /\ TasksCreated
    \/ \E is_closed \in {"True", "False"} :
           BaseunitDeviceAdded(1, is_closed) /\ TasksCreated
    \/ \E event_code \in EventCodes :
           DeviceOnEvent(1, event_code) /\ TasksCreated
    \/ \E new_value \in {"Away", "None"} :
           BaseunitPropertiesChanged(<<[name |-> PROP_STATE,
                                        new_value |-> new_value]>>)
           /\ TasksCreated
    \/ \E h \in Handles : AutoReset(h) /\ TasksCreated
    \/ \E h \in Handles : AdvanceTo(h)
    \/ AsyncPublish

\* property changes of the attributes published on several sub-topics
Structured ==
    \/ \E d \in DeviceIds, change \in FlagChanges :
           DeviceOnPropertiesChanged(d, <<change>>) /\ TasksUnfollowed
    \/ \E d \in DeviceIds :
           DeviceOnPropertiesChanged(d, <<CategoryChange>>) /\ TasksUnfollowed

\* the panel driver's callbacks about the base unit and its switches
Baseunit ==
    \/ \E contact_id \in ContactIDs :
           BaseunitEvent(contact_id) /\ TasksUnfollowed
    \/ \E change \in BaseunitChanges :
           BaseunitPropertiesChanged(<<change>>) /\ TasksUnfollowed
    \/ \E switch_number \in DOMAIN ConfigSwitches, state \in BOOLEAN :
           BaseunitSwitchStateChanged(switch_number, state) /\ TasksUnfollowed

Next == Lifecycle \/ Inbound \/ Panel \/ Structured \/ Baseunit

Spec == Init /\ [][Next]_vars

\* The handlers of inbound messages read nothing but the message and the
\* subscription table, the panel callbacks read nothing of the dispatch
\* loop, and the base unit's callbacks read only the configuration: the
\* sides are also checked apart, each with the lifecycle.  DispatchSpec is
\* the dispatch loop running among the device callbacks and their timers.
\* The tasks _publish creates change nothing the callbacks read: they are
\* followed to the messaging client in HandoverSpec only.
InboundSpec == Init /\ [][Lifecycle \/ Inbound]_vars

PanelSpec == Init /\ [][Lifecycle \/ Panel]_vars

BaseunitSpec == Init /\ [][Lifecycle \/ Baseunit]_vars

DispatchSpec == Init /\ [][Lifecycle \/ Inbound \/ Panel]_vars

\* the dispatch loop running among armed timers
TimedInboundSpec == Init /\ [][Lifecycle \/ Inbound \/ Timed]_vars

\* the events and timers of every kind of device entry: interval given, 0
\* or absent, topic absent, entry absent
EnrolledSpec == Init /\ [][Lifecycle \/ TimedEnrolled]_vars

\* the publishes on their way to the messaging client
HandoverSpec == Init /\ [][Caller \/ Followed]_vars

\* the attributes published on several sub-topics, for enrolled devices
StructuredSpec == Init /\ [][Lifecycle \/ Registration \/ Structured]_vars

\* a bridge configured without a discovery prefix
NoDiscoveryInit == Init /\ ha_discovery_prefix = ""

\* every callback that publishes, in such a bridge
NoDiscoverySpec ==
    NoDiscoveryInit /\ [][Lifecycle \/ Panel \/ Structured \/ Baseunit]_vars

TypeOK ==
    /\ pc \in {"created", "connecting", "subscribing", "started", "top",
               "waiting", "exited", "stopping", "stopped"}
    /\ shutdown \in BOOLEAN
    /\ driverRunning \in BOOLEAN
    /\ DOMAIN auto_reset_handles \subseteq EnrolledIds
    /\ attached \subseteq EnrolledIds
    /\ deleted \subseteq EnrolledIds

(***************************************************************************)
(* Fairness: the event loop keeps running what is ready.  The wait for a   *)
(* message is bounded by its timeout, the loop re-tests the flag, the      *)
(* caller goes on to async_stop, whose disconnect returns, time passes,    *)
(* and a scheduled handle whose deadline has passed is run.  Signals,      *)
(* inbound messages and panel callbacks are not fair: they may never come. *)
(***************************************************************************)
HandleIds == 1..MaxEvents

Fairness ==
    /\ WF_vars(LoopCheck)
    /\ WF_vars(LoopTimeout)
    /\ WF_vars(AsyncStop)
    /\ WF_vars(AsyncStopDone)
    /\ \A h \in HandleIds : WF_vars(AdvanceTo(h))
    /\ \A h \in HandleIds : WF_vars(AutoReset(h) /\ TasksUnfollowed)

FairInboundSpec == InboundSpec /\ Fairness

FairPanelSpec == PanelSpec /\ Fairness

(***************************************************************************)
(* Vocabulary of the properties                                            *)
(***************************************************************************)
Range(seq) == {seq[i] : i \in 1..Len(seq)}

Configured == {d \in DeviceIds : HasTopic(d)}

StateTopic(d) == <<ConfigDevices[d].topic>>

\* p is a publish on device d's state topic or on one of its sub-topics
OnTopicOf(d, p) == p.topic # <<>> /\ Head(p.topic) = ConfigDevices[d].topic

OnIssued(d) == Pub(StateTopic(d), "on", TRUE) \in Range(published)
OffIssued(d) == Pub(StateTopic(d), "off", TRUE) \in Range(published)

\* the last step was the callback of d's timer issuing its 'off'
TimerOffIssued(d) ==
    /\ OffIssued(d)
    /\ LiveTimers(d) = {}
    /\ \E h \in Handles : timers[h].dev = d /\ timers[h].st = "fired"

Stopped == pc \in {"stopping", "stopped"}

LoopStates == {"top", "waiting"}

\* the last step was a Trigger for d that found a handle to cancel
Retriggered(d) ==
    /\ OnIssued(d)
    /\ \E i \in 1..Len(calls) : calls[i].op = "handle.cancel"

\* handle h was cancelled and no later handle replaced it
CancelledByStop(h) ==
    /\ timers[h].st = "cancelled"
    /\ ~\E g \in Handles : g > h /\ timers[g].dev = timers[h].dev

ExceptionText == "Exception processing message from subscribed topic: %s"

(***************************************************************************)
(* C1  At most one live auto-reset timer exists per device id in every     *)
(* reachable state, and a Trigger that found the device's timer armed      *)
(* leaves exactly one live timer for it.                                   *)
(***************************************************************************)
C1_AtMostOneLiveTimer ==
    \A d \in DeviceIds :
        /\ Cardinality(LiveTimers(d)) <= 1
        /\ (d \in Configured /\ Retriggered(d))
               => Cardinality(LiveTimers(d)) = 1

C1_Witness ==
    \E d \in Configured :
        /\ Retriggered(d)
        /\ Cardinality(LiveTimers(d)) = 1
        /\ \E h \in Handles : timers[h].dev = d /\ timers[h].st = "cancelled"

(***************************************************************************)
(* C2  Every retained 'on' issued on the topic of a configured device is   *)
(* eventually followed by a retained 'off' on that topic.                  *)
(***************************************************************************)
C2_OnAlwaysFollowedByOff ==
    \A d \in Configured : OnIssued(d) ~> OffIssued(d)

(***************************************************************************)
(* C2 amended  A Trigger for a configured device issues the event code and *)
(* then a retained 'on' on the device's topic and arms a timer for the     *)
(* interval; the timer's callback runs no earlier than its deadline and    *)
(* issues a retained 'off' on the same topic; and every 'on' is eventually *)
(* followed by that 'off' unless async_stop has run, which cancels the     *)
(* timer without an 'off'.                                                 *)
(***************************************************************************)
C2_TriggerStep ==
    \A d \in Configured :
        OnIssued(d)' =>
            /\ published' = <<Pub(<<ConfigDevices[d].topic, "event_code">>,
                                  "Trigger", FALSE),
                              Pub(StateTopic(d), "on", TRUE)>>
            /\ Len(timers') = Len(timers) + 1
            /\ timers'[Len(timers')] =
                   [dev |-> d, st |-> "scheduled",
                    when |-> now + (IF ConfigDevices[d].has_interval
                                    THEN ConfigDevices[d].auto_reset_interval
                                    ELSE AUTO_RESET_INTERVAL)]

C2_FireStep ==
    \A h \in Handles :
        (timers[h].st = "scheduled" /\ timers'[h].st = "fired"
             /\ timers[h].dev \in Configured)
        => /\ timers[h].when <= now
           /\ published' = <<Pub(StateTopic(timers[h].dev), "off", TRUE)>>

C2_OnThenOffUnlessStopped ==
    /\ [][C2_TriggerStep /\ C2_FireStep]_vars
    /\ \A d \in Configured : OnIssued(d) ~> (TimerOffIssued(d) \/ Stopped)

C2_Witness ==
    \E h \in Handles :
        /\ timers[h].st = "fired"
        /\ timers[h].dev \in Configured
        /\ OffIssued(timers[h].dev)
        /\ timers[h].dev \notin DOMAIN auto_reset_handles
        /\ retained[StateTopic(timers[h].dev)] = "off"

(***************************************************************************)
(* C3  Once async_stop has run the registry is empty, no handle is still   *)
(* scheduled (the handles armed when it began are cancelled, none fired),  *)
(* and no step issues an 'off' on a device's state topic.                  *)
(***************************************************************************)
C3_StopCancelsTimers ==
    Stopped =>
        /\ auto_reset_handles = <<>>
        /\ \A h \in Handles : ~Live(h)
        /\ \A d \in Configured : ~OffIssued(d)

C3_Witness ==
    /\ pc = "stopped"
    /\ \E h \in Handles : CancelledByStop(h)

(***************************************************************************)
(* C4  While device d is deleted, no step issues a publish on d's state    *)
(* topic or on any of its sub-topics, also when a timer was armed for d    *)
(* when it was deleted.                                                    *)
(***************************************************************************)
C4_NoPublishAfterDelete ==
    \A d \in deleted \cap Configured :
        \A i \in 1..Len(published) : ~OnTopicOf(d, published[i])

(***************************************************************************)
(* C5  The dispatch loop leaves its running states only when the shutdown  *)
(* flag is set; a step from waiting back to the top of the loop (timeout,  *)
(* error of the wait, message whose handler returned or raised) leaves the *)
(* timer registry and the timers unchanged.                                *)
(***************************************************************************)
C5_Step ==
    /\ (pc \in LoopStates /\ pc' \notin LoopStates) => shutdown
    /\ (pc = "waiting" /\ pc' # "waiting")
           => /\ pc' = "top"
              /\ auto_reset_handles' = auto_reset_handles
              /\ timers' = timers

C5_LoopSurvivesFaults == [][C5_Step]_vars

C5_Witness ==
    /\ pc = "top"
    /\ ~shutdown
    /\ log.text = ExceptionText
    /\ log.exc_info = "KeyError"
    /\ auto_reset_handles # <<>>

(***************************************************************************)
(* C6  Once the shutdown flag is set the dispatch loop eventually exits,   *)
(* with or without inbound messages; no wait is started with the flag set, *)
(* and at most one message is dispatched after the flag was set.           *)
(***************************************************************************)
C6_Step == (shutdown /\ pc = "top") => pc' # "waiting"

C6_ShutdownExitsLoop ==
    /\ shutdown ~> (pc \notin LoopStates)
    /\ [](handledAfterShutdown <= 1)
    /\ [][C6_Step]_vars

C6_Witness ==
    /\ pc = "exited"
    /\ handledAfterShutdown = 1

(***************************************************************************)
(* C7  async_stop stops the panel driver first, then cancels every handle  *)
(* of the registry, then disconnects the client; when the disconnect is    *)
(* issued no handle is still scheduled.                                    *)
(***************************************************************************)
DisconnectIssued ==
    \E i \in 1..Len(calls) : calls[i].op = "mqtt.disconnect"

C7_StopOrder ==
    DisconnectIssued =>
        /\ Len(calls) >= 2
        /\ calls[1].op = "baseunit.stop"
        /\ calls[Len(calls)].op = "mqtt.disconnect"
        /\ \A i \in 2..(Len(calls) - 1) :
               /\ calls[i].op = "handle.cancel"
               /\ timers[calls[i].n].st = "cancelled"
        /\ \A h \in Handles : ~Live(h)
        /\ ~driverRunning

C7_Witness ==
    /\ DisconnectIssued
    /\ Len(calls) >= 3
    /\ \E h \in Handles : CancelledByStop(h)

(***************************************************************************)
(* C8  A message on operation_mode/set whose payload names no member of    *)
(* OperationMode (the empty payload included) causes no driver call and    *)
(* the loop goes back to its top; a payload that names a member causes     *)
(* exactly one async_set_operation_mode call, with that member.            *)
(***************************************************************************)
OperationModeSetTopic == <<BaseunitTopic, PROP_OPERATION_MODE, TOPIC_SET>>

MessagesOn(topic) == {m \in Messages : m.topic = topic}

C8_Step ==
    \A m \in MessagesOn(OperationModeSetTopic) :
        (pc = "waiting" /\ LoopMessage(m))
        => /\ pc' = "top"
           /\ IF m.data \in {"Disarm", "Home", "Away", "Monitor"}
              THEN calls' = <<Call("baseunit.async_set_operation_mode",
                                   m.data, 0, FALSE)>>
              ELSE calls' = <<>>

C8_OperationModeSet == [][C8_Step]_vars

C8_Witness ==
    /\ pc = "top"
    /\ calls = <<>>
    /\ log = Log("Cannot set operation_mode to '%s'", <<"maybe">>, "")

(***************************************************************************)
(* C9  A message on the set topic of configured switch n whose payload     *)
(* names on or off causes exactly one async_set_switch_state call, for     *)
(* switch n with the matching boolean; a payload that is text naming       *)
(* neither causes no driver call and a warning, and raises nothing.        *)
(***************************************************************************)
SubscribedSwitches ==
    {sw \in DOMAIN ConfigSwitches : ConfigSwitches[sw].topic # ""}

C9_Step ==
    \A sw \in SubscribedSwitches :
    \A m \in MessagesOn(<<ConfigSwitches[sw].topic, TOPIC_SET>>) :
        (pc = "waiting" /\ LoopMessage(m))
        => IF m.data \in {"on", "off"}
           THEN /\ calls' = <<Call("baseunit.async_set_switch_state",
                                   sw, 0, m.data = "on")>>
                /\ log' = NoLog
           ELSE /\ calls' = <<>>
                /\ (m.data # InvalidUtf8
                       => /\ log'.text = "Cannot set switch %s to '%s'"
                          /\ log'.exc_info = "")

DatetimeSetTopic == <<BaseunitTopic, TOPIC_DATETIME, TOPIC_SET>>

C10_Step ==
    \A m \in MessagesOn(DatetimeSetTopic) :
        (pc = "waiting" /\ LoopMessage(m))
        => /\ pc' = "top"
           /\ m.data = ""
                  => calls' = <<Call("baseunit.async_set_datetime",
                                     "None", 0, FALSE)>>
           /\ m.data \notin {"", DateTimeText, InvalidUtf8}
                  => /\ calls' = <<>>
                     /\ log' = Log(ExceptionText, DatetimeSetTopic,
                                   "ValueError")

C10_DatetimeSet == [][C10_Step]_vars

C10_Witness ==
    /\ pc = "top"
    /\ calls = <<>>
    /\ log = Log(ExceptionText, DatetimeSetTopic, "ValueError")

(***************************************************************************)
(* C11  A message whose topic is no key of the subscription lookup causes  *)
(* no driver call, no publish, no change of the timers or of the registry, *)
(* and the loop goes back to its top (the KeyError of the lookup is logged *)
(* and swallowed).                                                         *)
(***************************************************************************)
C11_Step ==
    \A m \in MessagesOn(UnmatchedTopic) :
        (pc = "waiting" /\ LoopMessage(m))
        => /\ calls' = <<>>
           /\ published' = <<>>
           /\ retained' = retained
           /\ timers' = timers
           /\ auto_reset_handles' = auto_reset_handles
           /\ pc' = "top"
           /\ shutdown' = shutdown

C11_UnmatchedIgnored == [][C11_Step]_vars

C11_Witness ==
    /\ pc = "top"
    /\ log = Log(ExceptionText, UnmatchedTopic, "KeyError")
    /\ calls = <<>>
    /\ \E h \in Handles : Live(h) /\ auto_reset_handles[timers[h].dev] = h

(***************************************************************************)
(* C12  A change of the base unit's 'state' property issues the raw state, *)
(* retained, on the base-unit topic and then ha_state, retained, as:       *)
(* Disarm or Monitor 'disarmed', Home 'armed_home', Away 'armed_away',     *)
(* AwayExitDelay or AwayEntryDelay 'pending'; for any other state value no *)
(* ha_state is issued.                                                     *)
(***************************************************************************)
HaStateTopic == <<BaseunitTopic, TOPIC_HASTATE>>

C12_Expected(value) ==
    CASE value \in {"Disarm", "Monitor"} -> <<Pub(HaStateTopic, "disarmed", TRUE)>>
      [] value = "Home" -> <<Pub(HaStateTopic, "armed_home", TRUE)>>
      [] value = "Away" -> <<Pub(HaStateTopic, "armed_away", TRUE)>>
      [] value \in {"AwayExitDelay", "AwayEntryDelay"} ->
             <<Pub(HaStateTopic, "pending", TRUE)>>
      [] OTHER -> <<>>

C12_Step ==
    \A value \in BaseUnitStates :
        BaseunitPropertiesChanged(<<[name |-> PROP_STATE, new_value |-> value]>>)
        => /\ Len(published') >= 1
           /\ published'[1] =
                  Pub(<<BaseunitTopic>>, IF value = "None" THEN "" ELSE value, TRUE)
           /\ Tail(published') = C12_Expected(value)

C12_StateMapping == [][C12_Step]_vars

C12_Witness ==
    /\ published = <<Pub(<<BaseunitTopic>>, "AwayEntryDelay", TRUE),
                     Pub(HaStateTopic, "pending", TRUE)>>
    /\ retained[HaStateTopic] = "pending"
    /\ retained[<<BaseunitTopic>>] = "AwayEntryDelay"

(***************************************************************************)
(* C13  Every base-unit event issues the raw event, not retained, on       *)
(* B/event; with the qualifier Event the bare code follows, not retained,  *)
(* on B/event_code, with Restore on B/restore_code; and exactly when the   *)
(* qualifier is Event and the category Alarm, 'triggered' is issued        *)
(* retained on B/ha_state.                                                 *)
(***************************************************************************)
EventTopics ==
    {<<BaseunitTopic, "event">>, <<BaseunitTopic, "event_code">>,
     <<BaseunitTopic, "restore_code">>}

C13_Raw(c) == <<Pub(<<BaseunitTopic, "event">>, ToString(c), FALSE)>>

C13_Triggered(c) ==
    IF c.event_qualifier = "Event" /\ c.event_category = "Alarm"
    THEN <<Pub(HaStateTopic, "triggered", TRUE)>> ELSE <<>>

C13_Code(c) ==
    IF c.event_qualifier = "Event"
    THEN <<Pub(<<BaseunitTopic, "event_code">>, c.event_code, FALSE)>>
    ELSE IF c.event_qualifier = "Restore"
    THEN <<Pub(<<BaseunitTopic, "restore_code">>, c.event_code, FALSE)>>
    ELSE <<>>

C13_StepAsStated ==
    \A c \in ContactIDs :
        BaseunitEvent(c)
        => published' = C13_Raw(c) \o C13_Code(c) \o C13_Triggered(c)

C13_EventPublishes == [][C13_StepAsStated]_vars

(***************************************************************************)
(* C13 amended  As above, but the bare code is issued on B/event_code or   *)
(* B/restore_code only when the event carries a code; an event without a   *)
(* code issues the raw event (and 'triggered' when it is an Event of       *)
(* category Alarm) and no code topic.  No event topic is issued retained.  *)
(***************************************************************************)
C13_StepWithCode ==
    \A c \in ContactIDs :
        BaseunitEvent(c)
        => /\ published' =
                  C13_Raw(c)
                  \o (IF c.event_code # "" THEN C13_Code(c) ELSE <<>>)
                  \o C13_Triggered(c)
           /\ \A i \in 1..Len(published') :
                  published'[i].topic \in EventTopics => ~published'[i].retain

C13_EventPublishesWithCode == [][C13_StepWithCode]_vars

C13_Witness ==
    /\ Len(published) = 3
    /\ published[1].topic = <<BaseunitTopic, "event">>
    /\ published[2] = Pub(<<BaseunitTopic, "event_code">>, "Burglar", FALSE)
    /\ published[3] = Pub(HaStateTopic, "triggered", TRUE)
    /\ retained[HaStateTopic] = "triggered"
    /\ EventTopics \cap DOMAIN retained = {}

(***************************************************************************)
(* C14  With no discovery prefix configured no discovery document is       *)
(* published: no step issues a publish on a .../config topic, and no such  *)
(* topic has ever been given a retained payload.                           *)
(***************************************************************************)
IsConfigTopic(t) == t # <<>> /\ t[Len(t)] = "config"

C14_NoDiscoveryWithoutPrefix ==
    ha_discovery_prefix = ""
    => /\ \A i \in 1..Len(published) : ~IsConfigTopic(published[i].topic)
       /\ \A t \in DOMAIN retained : ~IsConfigTopic(t)

C14_Witness ==
    /\ ha_discovery_prefix = ""
    /\ pc = "started"
    /\ 2 \in attached
    /\ Len(published) = 3
    /\ published[1].topic = <<ConfigDevices[2].topic, "device_id">>

(***************************************************************************)
(* C15  With discovery enabled, the device-added callback for a configured *)
(* device whose type has no branch in _publish_ha_device_config publishes  *)
(* the device's properties and no discovery document, logs a warning and   *)
(* raises nothing; it changes nothing else, so that later callbacks run as *)
(* for any other device.                                                   *)
(***************************************************************************)
Unrepresentable ==
    {d \in DOMAIN ConfigDevices :
        ConfigDevices[d].ha_name # "" /\ HaPlatform(DeviceTypeOf(d)) = ""}

C15_Step ==
    \A d \in Unrepresentable, is_closed \in {"True", "False"} :
        (ha_discovery_prefix # "" /\ BaseunitDeviceAdded(d, is_closed))
        => /\ raised' = ""
           /\ \A i \in 1..Len(published') :
                  ~IsConfigTopic(published'[i].topic)
           /\ published' = PublishChanges(ConfigDevices[d].topic, d,
                                          Snapshot(d, is_closed))
           /\ \A t \in DOMAIN retained' :
                  IsConfigTopic(t) => t \in DOMAIN retained
           /\ log'.text =
                  "Device type '%s' cannot be represented in Home Assistant and will be skipped."
           /\ attached' = attached \cup {d}
           /\ UNCHANGED <<pc, shutdown, driverRunning, timers,
                          auto_reset_handles>>

C15_UnknownTypeSkipped == [][C15_Step]_vars

\* after the skipped device, the next device-added callback publishes its
\* document
C15_Witness ==
    /\ ha_discovery_prefix # ""
    /\ Unrepresentable \cap attached # {}
    /\ raised = ""
    /\ \E d \in attached \ Unrepresentable :
           /\ published # <<>>
           /\ published[Len(published)] =
                  Pub(<<ha_discovery_prefix, "binary_sensor",
                        DeviceUniqueId(d), "config">>, "door", TRUE)

(***************************************************************************)
(* C16  A change of is_closed of a configured regular device issues one    *)
(* retained publish on the device's own topic: 'closed' for true and       *)
(* 'open' for false when the device is a DoorMagnet, 'off' whatever the    *)
(* value for every other type.                                             *)
(***************************************************************************)
C16_Step ==
    \A d \in Configured, value \in {"True", "False"} :
        DeviceOnPropertiesChanged(d, <<[name |-> PROP_IS_CLOSED,
                                       new_value |-> value]>>)
        => published' =
               <<Pub(StateTopic(d),
                     IF DeviceTypeOf(d) = "DoorMagnet"
                     THEN (IF value = "True" THEN "closed" ELSE "open")
                     ELSE "off",
                     TRUE)>>

C16_IsClosedPublish == [][C16_Step]_vars

C16_Witness ==
    /\ published = <<Pub(StateTopic(2), "open", TRUE)>>
    /\ DeviceTypeOf(2) = "DoorMagnet"
    /\ StateTopic(1) \in DOMAIN retained
    /\ retained[StateTopic(1)] = "off"
    /\ DeviceTypeOf(1) # "DoorMagnet"
    /\ timers = <<>>

(***************************************************************************)
(* C17  A change of a bitflag attribute of a configured device issues      *)
(* exactly one retained publish per flag of the attribute's enum, on       *)
(* {device}/{attribute}/{flag}, in the enum's order, whose payload says    *)
(* whether the flag's bit is set in the value; a bit of the value that no  *)
(* flag has is not published.                                              *)
(***************************************************************************)
\* value 5 = 0b0101 sets the flags 1 and 4; value 10 = 0b1010 sets the flag
\* 2 and the bit 8, which no flag has
C17_Expected(value) ==
    IF value = 5 THEN <<"True", "False", "True">>
    ELSE <<"False", "True", "False">>

C17_Step ==
    \A d \in Configured, change \in FlagChanges :
        DeviceOnPropertiesChanged(d, <<change>>)
        => /\ Len(published') = Len(FlagItems(change.name))
           /\ \A i \in 1..Len(published') :
                  published'[i] =
                      Pub(<<ConfigDevices[d].topic, change.name,
                            FlagItems(change.name)[i][1]>>,
                          C17_Expected(change.new_value)[i], TRUE)

C17_FlagPublishes == [][C17_Step]_vars

C17_Witness ==
    /\ Len(published) = 3
    /\ \E d \in Configured :
           /\ published[1] =
                  Pub(<<ConfigDevices[d].topic, "enable_status", "Bypass">>,
                      "False", TRUE)
           /\ published[2] =
                  Pub(<<ConfigDevices[d].topic, "enable_status", "Delay">>,
                      "True", TRUE)
           /\ published[3] =
                  Pub(<<ConfigDevices[d].topic, "enable_status", "Hour24">>,
                      "False", TRUE)

(***************************************************************************)
(* C18  Triggers that find the device's timer armed do not stack: each     *)
(* arming leaves every earlier handle of the device cancelled or run and   *)
(* sets the new deadline to the time of this Trigger plus the interval;    *)
(* only the handle armed last runs, not before its deadline, and issues    *)
(* one retained 'off'.                                                     *)
(***************************************************************************)
IntervalOf(d) ==
    IF ConfigDevices[d].has_interval
    THEN ConfigDevices[d].auto_reset_interval ELSE AUTO_RESET_INTERVAL

HandlesOf(d) == {h \in Handles : timers[h].dev = d}

C18_ArmStep ==
    \A d \in Configured :
        (Len(timers') = Len(timers) + 1 /\ timers'[Len(timers')].dev = d)
        => /\ timers'[Len(timers')].when = now + IntervalOf(d)
           /\ timers'[Len(timers')].st = "scheduled"
           /\ \A h \in HandlesOf(d) : timers'[h].st # "scheduled"

C18_RunStep ==
    \A h \in Handles :
        /\ (timers[h].st = "scheduled" /\ timers'[h].st = "fired"
               /\ timers[h].dev \in Configured)
           => /\ \A g \in HandlesOf(timers[h].dev) : g <= h
              /\ timers[h].when <= now
              /\ published' = <<Pub(StateTopic(timers[h].dev), "off", TRUE)>>
        /\ timers[h].st # "scheduled" => timers'[h] = timers[h]

C18_NoStacking == [][C18_ArmStep /\ C18_RunStep]_vars

C19_Step ==
    /\ \A h \in Handles :
           /\ timers[h].st = "cancelled" => timers'[h].st = "cancelled"
           /\ timers'[h].st = "fired" => timers[h].st \in {"scheduled", "fired"}
    /\ \A d \in DOMAIN auto_reset_handles :
           (Len(timers') = Len(timers) + 1 /\ timers'[Len(timers')].dev = d)
           => timers'[auto_reset_handles[d]].st = "cancelled"
    /\ (pc = "exited" /\ pc' = "stopping")
           => \A h \in Handles :
                  timers[h].st = "scheduled" => timers'[h].st = "cancelled"

C19_CancelledNeverRuns == [][C19_Step]_vars

\* the last step was a Trigger that cancelled a handle whose deadline had
\* passed and whose callback had not run
C19_Witness ==
    \E d \in Configured :
    \E h \in HandlesOf(d) :
        /\ Retriggered(d)
        /\ timers[h].st = "cancelled"
        /\ timers[Len(timers)].dev = d
        /\ timers[Len(timers)].st = "scheduled"
        /\ timers[h].when + IntervalOf(d) <= timers[Len(timers)].when
        /\ \A g \in HandlesOf(d) : g > h => g = Len(timers)

(***************************************************************************)
(* C20  Each arming fires at most once: a handle runs its callback only    *)
(* while scheduled and is never scheduled again; the step that runs it     *)
(* publishes exactly one retained 'off' on the device topic, removes the   *)
(* device's registry entry and leaves the device with no live timer.       *)
(* Every handle is created by a Trigger for its device, one per Trigger,   *)
(* and at most one handle fires in a step, so the handles of a device that *)
(* have fired never outnumber the Triggers that armed them.                *)
(***************************************************************************)
FiredOf(d) == {h \in HandlesOf(d) : timers[h].st = "fired"}

C20_FireStep ==
    \A h \in Handles :
        /\ timers[h].st = "fired" => timers'[h] = timers[h]
        /\ (timers[h].st = "scheduled" /\ timers'[h].st = "fired"
               /\ timers[h].dev \in Configured)
           => /\ published' = <<Pub(StateTopic(timers[h].dev), "off", TRUE)>>
              /\ timers[h].dev \in DOMAIN auto_reset_handles
              /\ timers[h].dev \notin DOMAIN auto_reset_handles'
              /\ \A g \in Handles : timers[g].dev = timers[h].dev
                     => timers'[g].st # "scheduled"
              /\ \A g \in Handles \ {h} : timers'[g] = timers[g]
              /\ Len(timers') = Len(timers)

C20_TriggerArms ==
    Len(timers') # Len(timers)
    => /\ Len(timers') = Len(timers) + 1
       /\ timers'[Len(timers')].dev \in Configured
       /\ Pub(StateTopic(timers'[Len(timers')].dev), "on", TRUE)
              \in Range(published')
       /\ \A h \in Handles : timers'[h].st # "fired" \/ timers[h].st = "fired"

C20_FiresAtMostOnce == [][C20_FireStep /\ C20_TriggerArms]_vars

\* two armings of one device have each fired, the second one in the last
\* step, and the device is idle again
C20_Witness ==
    \E d \in Configured :
        /\ Cardinality(FiredOf(d)) = 2
        /\ FiredOf(d) = HandlesOf(d)
        /\ published = <<Pub(StateTopic(d), "off", TRUE)>>
        /\ d \notin DOMAIN auto_reset_handles

(***************************************************************************)
(* C21  The handle a Trigger arms has its deadline at the arm time plus    *)
(* the device's configured auto-reset interval whenever the configuration  *)
(* gives one, 0 included, and at the arm time plus AUTO_RESET_INTERVAL     *)
(* only when it gives none.                                                *)
(***************************************************************************)
C21_ArmStep ==
    \A d \in DOMAIN ConfigDevices :
        (Len(timers') = Len(timers) + 1 /\ timers'[Len(timers')].dev = d)
        => timers'[Len(timers')].when =
               now + (IF ConfigDevices[d].has_interval
                      THEN ConfigDevices[d].auto_reset_interval
                      ELSE AUTO_RESET_INTERVAL)

C21_DeadlineFromConfig == [][C21_ArmStep]_vars

(***************************************************************************)
(* C22  The publishes are handed to the messaging client in the order      *)
(* they were issued: what has been handed over followed by what waits is   *)
(* always the sequence of every publish issued so far, a step that issues  *)
(* publishes puts them behind all earlier ones in the order it issued      *)
(* them, and a hand-over only extends what was handed over.  So for a      *)
(* Trigger the event_code is handed over before 'on', for a state change   *)
(* the raw state before ha_state, and no publish of a later callback or    *)
(* timer fire before one of an earlier callback.                           *)
(***************************************************************************)
IsPrefix(s, t) == Len(s) <= Len(t) /\ SubSeq(t, 1, Len(s)) = s

C22_Step ==
    /\ handed' \o ready' = (handed \o ready) \o published'
    /\ IsPrefix(handed, handed')

C22_HandedInIssueOrder == [][C22_Step]_vars

\* a Trigger's event_code and 'on', then the timer's 'off', then a raw state
\* and its ha_state have been handed over, in that order
C22_Witness ==
    \E i, j, k \in 1..Len(handed) :
        /\ i + 1 < j /\ j < k /\ k + 1 <= Len(handed)
        /\ handed[i] = Pub(<<ConfigDevices[1].topic, "event_code">>,
                           "Trigger", FALSE)
        /\ handed[i + 1] = Pub(StateTopic(1), "on", TRUE)
        /\ handed[j] = Pub(StateTopic(1), "off", TRUE)
        /\ handed[k] = Pub(<<BaseunitTopic>>, "Away", TRUE)
        /\ handed[k + 1] = Pub(HaStateTopic, "armed_away", TRUE)
        /\ ready = <<>>

(***************************************************************************)
(* C23  A device event for a device whose id has no entry in the           *)
(* configuration, or an entry without a topic, issues no publish and arms  *)
(* no timer.  A device event other than Trigger for a device with a topic  *)
(* issues the event code, not retained, on the device's event_code topic   *)
(* and nothing else, and leaves the timers, the registry and every         *)
(* retained payload, the one of the device's own topic included, as they   *)
(* were.                                                                   *)
(***************************************************************************)
C23_Step ==
    \A d \in EnrolledIds, event_code \in EventCodes :
        DeviceOnEvent(d, event_code)
        => /\ ~HasTopic(d)
              => /\ published' = <<>>
                 /\ timers' = timers
                 /\ auto_reset_handles' = auto_reset_handles
                 /\ retained' = retained
           /\ (HasTopic(d) /\ event_code # "Trigger")
              => /\ published' = <<Pub(<<ConfigDevices[d].topic, "event_code">>,
                                      event_code, FALSE)>>
                 /\ timers' = timers
                 /\ auto_reset_handles' = auto_reset_handles
                 /\ retained' = retained

C23_EventFrame == [][C23_Step]_vars

\* the last step was an event other than Trigger for a device with a
\* topic whose timer is armed
C23_Witness ==
    /\ 1 \in DOMAIN auto_reset_handles
    /\ Live(auto_reset_handles[1])
    /\ published = <<Pub(<<ConfigDevices[1].topic, "event_code">>, "Open", FALSE)>>
    /\ StateTopic(1) \in DOMAIN retained
    /\ retained[StateTopic(1)] = "on"

(***************************************************************************)
(* C24  A device-added notification for a device whose id has no entry in  *)
(* the configuration binds the callbacks, issues no publish and raises no  *)
(* exception, with and without a discovery prefix.                         *)
(***************************************************************************)
C24_Step ==
    \A d \in DeviceIds \ DOMAIN ConfigDevices, is_closed \in {"True", "False"} :
        BaseunitDeviceAdded(d, is_closed)
        => /\ d \in attached'
           /\ published' = <<>>
           /\ raised' = ""

C24_AddedWithoutConfig == [][C24_Step]_vars

(***************************************************************************)
(* C25  While the auto-reset timer of a device is armed, the retained      *)
(* payload of the device's own topic is 'on'.                              *)
(***************************************************************************)
Armed(d) == d \in DOMAIN auto_reset_handles /\ Live(auto_reset_handles[d])

IsClosedStep(d) ==
    \E is_closed \in {"True", "False"} :
        \/ BaseunitDeviceAdded(d, is_closed)
        \/ DeviceOnPropertiesChanged(
               d, <<[name |-> PROP_IS_CLOSED, new_value |-> is_closed]>>)

C25_Step ==
    \A d \in Configured :
        /\ (Len(timers') = Len(timers) + 1 /\ timers'[Len(timers')].dev = d)
           => /\ Armed(d)'
              /\ retained'[StateTopic(d)] = "on"
        /\ (Armed(d) /\ Armed(d)'
               /\ auto_reset_handles'[d] = auto_reset_handles[d])
           => \/ \A i \in 1..Len(published') :
                     published'[i].topic # StateTopic(d)
              \/ IsClosedStep(d)

C26_RegistryIsLiveTimers ==
    /\ \A d \in DeviceIds :
           /\ d \in DOMAIN auto_reset_handles <=> LiveTimers(d) # {}
           /\ d \in DOMAIN auto_reset_handles
              => LiveTimers(d) = {auto_reset_handles[d]}
    /\ \A h \in Handles :
           (Live(h) /\ timers[h].when <= now)
           => timers[h].dev \in DOMAIN auto_reset_handles
    /\ raised # "KeyError"

\* the timer of device 1 has run and popped its entry, and a later Trigger
\* has registered a new handle
C26_Witness ==
    /\ Armed(1)
    /\ \E h \in HandlesOf(1) :
           /\ timers[h].st = "fired"
           /\ h < auto_reset_handles[1]
    /\ raised = ""

====
